---- MODULE Spec2Model ----
(***************************************************************************)
(* Model of linux_utils/luks.py: the cryptsetup wrappers                   *)
(* (generate_key_file, create_encrypted_filesystem, unlock_filesystem,     *)
(* lock_filesystem), the cryptdisks_start / cryptdisks_stop shims and the  *)
(* TemporaryKeyFile context manager.                                       *)
(*                                                                         *)
(* One behaviour is one top-level call.  Every context.execute() is        *)
(* recorded in `log` together with its sudo / tty keyword arguments and    *)
(* with whether the external command succeeded; the outcome of an external *)
(* command is a nondeterministic choice.  Python strings are TLA+ strings; *)
(* Chars gives their characters where the code looks inside a string       *)
(* (startswith, partition, int, sorted).                                   *)
(***************************************************************************)
EXTENDS Integers, Sequences, FiniteSets, TLC

VARIABLES
    op,            \* the function the caller invoked ("none" before the call)
    pc,            \* position inside the running call
    device_file,   \* unlock_filesystem / create_encrypted_filesystem argument
    target,        \* unlock_filesystem / lock_filesystem / cryptdisks_* argument
    key_file,      \* key_file argument (None, "" or a pathname)
    options,       \* options argument of unlock_filesystem
    tries,         \* local variable `tries` of unlock_filesystem
    open_command,  \* local variable `open_command` of unlock_filesystem
    attempt,       \* last value yielded by retry_limit(tries)
    log,           \* executed commands and logged warnings, in order
    outcome,       \* "none", "returned" or the exception that left the call
    programs,      \* programs installed on the execution context
    crypttab,      \* entries produced by parse_crypttab()
    parsed,        \* TRUE once parse_crypttab() has been called
    matched,       \* index of the crypttab entry the shim matched (0: none)
    file,          \* the key file on disk
    filename,      \* filename argument of generate_key_file / TemporaryKeyFile
    size,          \* size argument of generate_key_file / TemporaryKeyFile
    body_raised    \* TRUE when the body of the with-statement raised

vars == <<op, pc, device_file, target, key_file, options, tries, open_command,
          attempt, log, outcome, programs, crypttab, parsed, matched, file,
          filename, size, body_raised>>

-----------------------------------------------------------------------------
(* Bounds of the model.                                                    *)

\* longest options list passed to unlock_filesystem by a direct caller
MaxOptions == 3
\* largest number of entries in /etc/crypttab
MaxEntries == 2

-----------------------------------------------------------------------------
(* Python values.                                                          *)

\* Python's None (a value different from every pathname and from "")
None == "<None>"

\* truth value of a key_file / string argument: None and "" are false
Truthy(v) == v # None /\ v # ""

\* the characters (code points) of the strings the code inspects
Chars(s) ==
    CASE s = "discard" -> <<100, 105, 115, 99, 97, 114, 100>>
      [] s = "readonly" -> <<114, 101, 97, 100, 111, 110, 108, 121>>
      [] s = "luks" -> <<108, 117, 107, 115>>
      [] s = "tries=" -> <<116, 114, 105, 101, 115, 61>>
      [] s = "tries=0" -> <<116, 114, 105, 101, 115, 61, 48>>
      [] s = "tries=1" -> <<116, 114, 105, 101, 115, 61, 49>>
      [] s = "tries=2" -> <<116, 114, 105, 101, 115, 61, 50>>
      [] s = "tries=5" -> <<116, 114, 105, 101, 115, 61, 53>>
      [] s = "--allow-discards" -> <<45, 45, 97, 108, 108, 111, 119, 45, 100, 105, 115, 99, 97, 114, 100, 115>>
      [] s = "--readonly" -> <<45, 45, 114, 101, 97, 100, 111, 110, 108, 121>>
      [] s = "--key-file=/etc/k" -> <<45, 45, 107, 101, 121, 45, 102, 105, 108, 101, 61, 47, 101, 116, 99, 47, 107>>
      [] s = "400" -> <<52, 48, 48>>
      [] s = "600" -> <<54, 48, 48>>
      [] s = "644" -> <<54, 52, 52>>

\* str.startswith
StartsWith(s, prefix) ==
    /\ Len(Chars(s)) >= Len(Chars(prefix))
    /\ SubSeq(Chars(s), 1, Len(Chars(prefix))) = Chars(prefix)

\* the third component of s.partition('='): the characters after the first '='
PartitionValue(s) ==
    LET cs == Chars(s)
        eq == {i \in 1..Len(cs) : cs[i] = 61}
    IN  IF eq = {} THEN <<>>
        ELSE LET first == CHOOSE i \in eq : \A j \in eq : i <= j
             IN  SubSeq(cs, first + 1, Len(cs))

\* int() of a string of decimal digits, given as characters
RECURSIVE int(_)
int(cs) ==
    IF Len(cs) = 0 THEN 0
    ELSE 10 * int(SubSeq(cs, 1, Len(cs) - 1)) + (cs[Len(cs)] - 48)

\* Python's `a < b` on strings: lexicographic comparison of code points
RECURSIVE LexLess(_, _)
LexLess(a, b) ==
    IF Len(b) = 0 THEN FALSE
    ELSE IF Len(a) = 0 THEN TRUE
    ELSE IF a[1] # b[1] THEN a[1] < b[1]
    ELSE LexLess(Tail(a), Tail(b))

\* insert x into the sorted list s, after the elements that are not greater
RECURSIVE Insert(_, _)
Insert(x, s) ==
    IF s = <<>> THEN <<x>>
    ELSE IF LexLess(Chars(x), Chars(Head(s))) THEN <<x>> \o s
    ELSE <<Head(s)>> \o Insert(x, Tail(s))

\* the mutation of sorted() that keeps the order of insertion
sorted_unsorted(s) == s

\* sorted(): a stable ascending sort of a list of strings
RECURSIVE sorted(_)
sorted(s) ==
    IF s = <<>> THEN <<>>
    ELSE Insert(s[Len(s)], sorted(SubSeq(s, 1, Len(s) - 1)))

Range(s) == {s[i] : i \in 1..Len(s)}

\* all lists over S of length at most n
SeqUpTo(S, n) == UNION {[1..k -> S] : k \in 0..n}

-----------------------------------------------------------------------------
(* The log: one record per context.execute() and per logger.warning().     *)

\* context.execute(*argv, sudo=..., tty=...); tty is "unset" when the call
\* does not pass the keyword
Execute(argv, sudo, tty, ok) ==
    [kind |-> "execute", argv |-> argv, sudo |-> sudo, tty |-> tty, ok |-> ok]

\* logger.warning("Failed to unlock, retrying ..")
Warning == [kind |-> "warning", argv |-> <<>>, sudo |-> FALSE, tty |-> "unset", ok |-> TRUE]

\* str(b) of the boolean passed as tty=
TtyArg(b) == IF b THEN "True" ELSE "False"

Executed == {i \in 1..Len(log) : log[i].kind = "execute"}
Warnings == {i \in 1..Len(log) : log[i].kind = "warning"}

-----------------------------------------------------------------------------
(* unlock_filesystem                                                       *)

OptionTokens == {"discard", "readonly", "luks", "tries=0", "tries=1", "tries=2", "tries=5"}
KeyFiles == {None, "", "/etc/k"}

\* the value of `tries` after the loop over the options (the last tries=
\* token wins, 3 when there is none)
RECURSIVE ParseTries(_, _)
ParseTries(opts, t) ==
    IF opts = <<>> THEN t
    ELSE LET opt == Head(opts)
         IN  IF opt = "discard" \/ opt = "readonly" THEN ParseTries(Tail(opts), t)
             ELSE IF StartsWith(opt, "tries=") THEN ParseTries(Tail(opts), int(PartitionValue(opt)))
             ELSE ParseTries(Tail(opts), t)

\* the flags appended to open_options while looping over the options
RECURSIVE OptionFlags(_)
OptionFlags(opts) ==
    IF opts = <<>> THEN <<>>
    ELSE LET opt == Head(opts)
         IN  (IF opt = "discard" THEN <<"--allow-discards">>
              ELSE IF opt = "readonly" THEN <<"--readonly">>
              ELSE <<>>) \o OptionFlags(Tail(opts))

\* open_options before it is sorted
OpenOptions(kf, opts) ==
    (IF Truthy(kf) THEN <<"--key-file=" \o kf>> ELSE <<>>) \o OptionFlags(opts)

\* open_command as built by unlock_filesystem
OpenCommand(dev, tgt, kf, opts) ==
    <<"cryptsetup">> \o sorted(OpenOptions(kf, opts)) \o <<"luksOpen", dev, tgt>>

\* tty=(key_file is None)
UnlockTty(kf) == TtyArg(kf = None)

\* the mutation that compares with <=
ShouldRetry_le(att, t, kf) == att <= t /\ ~Truthy(kf)

\* the mutation that forgets the key file
ShouldRetry_nokey(att, t, kf) == att < t

\* `attempt < tries and not key_file`
ShouldRetry(att, t, kf) == att < t /\ ~Truthy(kf)

\* the mutation in which the generator yields once more
retry_limit_more(att, t) == att <= t

\* retry_limit(tries) yields 1..tries: TRUE while it has a next value
retry_limit(att, t) == att < t

\* the state every call starts from
Start(o) ==
    /\ pc = "idle"
    /\ op' = o

unlock_begin(dev, tgt, kf, opts) ==
    /\ device_file' = dev
    /\ target' = tgt
    /\ key_file' = kf
    /\ options' = opts
    /\ tries' = ParseTries(opts, 3)
    /\ open_command' = OpenCommand(dev, tgt, kf, opts)
    /\ attempt' = 0
    /\ pc' = "unlock_loop"

\* the call of unlock_filesystem up to the head of the for loop
unlock_filesystem ==
    \E kf \in KeyFiles, opts \in SeqUpTo(OptionTokens, MaxOptions) :
        /\ Start("unlock_filesystem")
        /\ unlock_begin("/dev/sdb1", "vault", kf, opts)
        /\ UNCHANGED <<log, outcome, programs, crypttab, parsed, matched, file,
                       filename, size, body_raised>>

\* one iteration of `for attempt in retry_limit(tries)`
UnlockAttempt ==
    /\ pc = "unlock_loop"
    /\ retry_limit(attempt, tries)
    /\ attempt' = attempt + 1
    /\ \E ok \in BOOLEAN :
        /\ log' = Append(log, Execute(open_command, TRUE, UnlockTty(key_file), ok))
                  \o (IF ~ok /\ ShouldRetry(attempt', tries, key_file)
                      THEN <<Warning>> ELSE <<>>)
        /\ IF ok
           THEN pc' = "done" /\ outcome' = "returned"
           ELSE IF ShouldRetry(attempt', tries, key_file)
           THEN UNCHANGED <<pc, outcome>>
           ELSE pc' = "done" /\ outcome' = "ExternalCommandFailed"
    /\ UNCHANGED <<op, device_file, target, key_file, options, tries, open_command,
                   programs, crypttab, parsed, matched, file, filename, size,
                   body_raised>>

\* retry_limit() is exhausted: humanfriendly's generator ends by raising
\* TooManyInvalidReplies, which the for statement lets through.  With
\* tries >= 1 the last iteration breaks or re-raises, so this is reached
\* only for tries <= 0.
UnlockExhausted ==
    /\ pc = "unlock_loop"
    /\ ~retry_limit(attempt, tries)
    /\ pc' = "done"
    /\ outcome' = "TooManyInvalidReplies"
    /\ UNCHANGED <<op, device_file, target, key_file, options, tries, open_command,
                   attempt, log, programs, crypttab, parsed, matched, file,
                   filename, size, body_raised>>

-----------------------------------------------------------------------------
(* create_encrypted_filesystem and lock_filesystem                         *)

\* format_command as built by create_encrypted_filesystem
FormatCommand(dev, kf) ==
    <<"cryptsetup">>
    \o (IF Truthy(kf) THEN <<"--batch-mode">> ELSE <<>>)
    \o <<"luksFormat", dev>>
    \o (IF Truthy(kf) THEN <<kf>> ELSE <<>>)

create_encrypted_filesystem ==
    \E kf \in KeyFiles, ok \in BOOLEAN :
        /\ Start("create_encrypted_filesystem")
        /\ device_file' = "/dev/sdb1"
        /\ key_file' = kf
        /\ log' = Append(log, Execute(FormatCommand("/dev/sdb1", kf), TRUE, TtyArg(kf = None), ok))
        /\ pc' = "done"
        /\ outcome' = IF ok THEN "returned" ELSE "ExternalCommandFailed"
        /\ UNCHANGED <<target, options, tries, open_command, attempt, programs,
                       crypttab, parsed, matched, file, filename, size, body_raised>>

\* close_command of lock_filesystem
CloseCommand(tgt) == <<"cryptsetup", "luksClose", tgt>>

lock_filesystem ==
    \E ok \in BOOLEAN :
        /\ Start("lock_filesystem")
        /\ target' = "vault"
        /\ log' = Append(log, Execute(CloseCommand("vault"), TRUE, "False", ok))
        /\ pc' = "done"
        /\ outcome' = IF ok THEN "returned" ELSE "ExternalCommandFailed"
        /\ UNCHANGED <<device_file, key_file, options, tries, open_command, attempt,
                       programs, crypttab, parsed, matched, file, filename, size,
                       body_raised>>

-----------------------------------------------------------------------------
(* Specification of the cryptsetup wrappers.                               *)

NoFile == [exists |-> FALSE, owner |-> "nobody", mode |-> 0, bytes |-> 0]

InitCommon ==
    /\ op = "none"
    /\ pc = "idle"
    /\ device_file = None
    /\ target = None
    /\ key_file = None
    /\ options = <<>>
    /\ tries = 3
    /\ open_command = <<>>
    /\ attempt = 0
    /\ log = <<>>
    /\ outcome = "none"
    /\ parsed = FALSE
    /\ matched = 0
    /\ filename = None
    /\ size = 0
    /\ body_raised = FALSE

Init ==
    /\ InitCommon
    /\ programs = {}
    /\ crypttab = <<>>
    /\ file = NoFile

Next ==
    \/ unlock_filesystem
    \/ UnlockAttempt
    \/ UnlockExhausted
    \/ create_encrypted_filesystem
    \/ lock_filesystem

Spec == Init /\ [][Next]_vars

-----------------------------------------------------------------------------
(* Properties of unlock_filesystem and create_encrypted_filesystem.        *)

\* unlock_filesystem has built its command and entered the retry loop
UnlockCalled == open_command # <<>>

AllFailed == \A i \in Executed : ~log[i].ok

Count(s, x) == Cardinality({i \in 1..Len(s) : s[i] = x})

Rep(x, n) == [i \in 1..n |-> x]

\* C1: without a key file and with tries = N >= 1, when every attempt fails
\* the tool is invoked exactly N times, N-1 warnings are logged, each one
\* right after a failed attempt and before the next attempt, and the command
\* failure is raised only after the N-th attempt.
C1_RetryUntilLimit ==
    (UnlockCalled /\ ~Truthy(key_file) /\ tries >= 1 /\ AllFailed) =>
        /\ Cardinality(Executed) <= tries
        /\ outcome \in {"none", "ExternalCommandFailed"}
        /\ (outcome = "ExternalCommandFailed") = (Cardinality(Executed) = tries)
        /\ (pc = "done") = (outcome = "ExternalCommandFailed")
        /\ pc = "done" =>
              /\ Cardinality(Warnings) = tries - 1
              /\ log[Len(log)].kind = "execute"
        /\ pc # "done" => Cardinality(Warnings) = Cardinality(Executed)
        /\ \A i \in Warnings :
              /\ i > 1
              /\ log[i - 1].kind = "execute"
              /\ ~log[i - 1].ok
              /\ i < Len(log) => log[i + 1].kind = "execute"

C1_Witness ==
    /\ op = "unlock_filesystem"
    /\ key_file = None
    /\ tries = 3
    /\ pc = "done"
    /\ outcome = "ExternalCommandFailed"
    /\ Cardinality(Executed) = 3
    /\ Cardinality(Warnings) = 2

\* C2: with a key file, for every tries >= 1, a failed first attempt raises
\* the command failure at once: one invocation, no warning, no retry.
C2_KeyFileNeverRetries ==
    (UnlockCalled /\ Truthy(key_file) /\ tries >= 1 /\ Len(log) >= 1 /\ ~log[1].ok) =>
        /\ pc = "done"
        /\ outcome = "ExternalCommandFailed"
        /\ Cardinality(Executed) = 1
        /\ Warnings = {}

C2_Witness ==
    /\ op = "unlock_filesystem"
    /\ key_file = "/etc/k"
    /\ tries = 5
    /\ pc = "done"
    /\ outcome = "ExternalCommandFailed"
    /\ Len(log) = 1

\* the flags of the command for a key file and an options list, in a given
\* order of the three kinds of flag
KeyFlag(kf) == IF Truthy(kf) THEN <<"--key-file=" \o kf>> ELSE <<>>
DiscardFlags(opts) == Rep("--allow-discards", Count(opts, "discard"))
ReadonlyFlags(opts) == Rep("--readonly", Count(opts, "readonly"))

\* C3 as stated: the flags are ordered --allow-discards, --readonly,
\* --key-file=<path>, followed by luksOpen <device> <target>.
C3_FlagsKeyFileLast ==
    UnlockCalled =>
        open_command = <<"cryptsetup">> \o DiscardFlags(options) \o ReadonlyFlags(options)
                       \o KeyFlag(key_file) \o <<"luksOpen", device_file, target>>

\* C3 (amended): the flags are in lexicographic order, --allow-discards,
\* --key-file=<path>, --readonly, one per occurrence of discard / readonly
\* and the key file flag only for a non-empty key file; tries= and unknown
\* tokens add no flag; luksOpen <device> <target> follows.
C3_FlagsSorted ==
    UnlockCalled =>
        open_command = <<"cryptsetup">> \o DiscardFlags(options) \o KeyFlag(key_file)
                       \o ReadonlyFlags(options) \o <<"luksOpen", device_file, target>>

C3_Witness ==
    /\ op = "unlock_filesystem"
    /\ key_file = "/etc/k"
    /\ Range(options) = {"discard", "readonly", "tries=5"}
    /\ open_command = <<"cryptsetup", "--allow-discards", "--key-file=/etc/k", "--readonly",
                        "luksOpen", "/dev/sdb1", "vault">>
    /\ tries = 5

\* the command carries a key file: --key-file=<path> (luksOpen) or
\* --batch-mode with the key file as the last argument (luksFormat)
CarriesKeyFile(argv) ==
    \E k \in KeyFiles \ {None, ""} :
        \/ ("--key-file=" \o k) \in Range(argv)
        \/ "--batch-mode" \in Range(argv) /\ argv[Len(argv)] = k

IsFormatOrOpen(argv) == "luksFormat" \in Range(argv) \/ "luksOpen" \in Range(argv)

\* C9: for every key_file value (None, "", a path) luksFormat and luksOpen
\* run without a pseudo-terminal exactly when the command carries the key
\* file and with one exactly when it does not; every retry repeats the first
\* attempt's command and pseudo-terminal setting.
C9_TtyIffNoKeyFile ==
    /\ \A i \in Executed :
          IsFormatOrOpen(log[i].argv) =>
              /\ (log[i].tty = "False") = CarriesKeyFile(log[i].argv)
              /\ (log[i].tty = "True") = ~CarriesKeyFile(log[i].argv)
    /\ \A i, j \in Executed :
          log[i].argv = log[j].argv /\ log[i].tty = log[j].tty

\* C10: for every tries >= 0 the tool is invoked at most `tries` times,
\* nothing follows a successful attempt, a successful attempt makes the call
\* return, and the call returns only after a successful attempt.
C10_BoundedAttempts ==
    (UnlockCalled /\ tries >= 0) =>
        /\ Cardinality(Executed) <= tries
        /\ \A i \in Executed : log[i].ok => i = Len(log)
        /\ (\E i \in Executed : log[i].ok) => (pc = "done" /\ outcome = "returned")
        /\ outcome = "returned" => \E i \in Executed : log[i].ok

C10_Witness ==
    /\ op = "unlock_filesystem"
    /\ tries = 5
    /\ pc = "done"
    /\ outcome = "returned"
    /\ Cardinality(Executed) = 3
    /\ Cardinality(Warnings) = 2

-----------------------------------------------------------------------------
(* generate_key_file and TemporaryKeyFile                                  *)

DEFAULT_KEY_SIZE == 2048

\* the value of a string of octal digits, as chmod reads its mode argument
RECURSIVE Octal(_)
Octal(cs) ==
    IF Len(cs) = 0 THEN 0
    ELSE 8 * Octal(SubSeq(cs, 1, Len(cs) - 1)) + (cs[Len(cs)] - 48)

\* dd if=/dev/urandom of=<file> bs=<size> count=1 run by root: the file is
\* created (with the mode the umask leaves) or truncated, and on success
\* holds `size` bytes; an existing file keeps its owner and mode
dd(f, sz, umode, ok) ==
    IF f.exists
    THEN [f EXCEPT !.bytes = IF ok THEN sz ELSE 0]
    ELSE [exists |-> TRUE, owner |-> "root", mode |-> Octal(Chars(umode)),
          bytes |-> IF ok THEN sz ELSE 0]

\* chown root:root <file>
chown(f, owner) == [f EXCEPT !.owner = owner]

\* the mutation that reads the mode as a decimal number
chmod_decimal(f, m) == [f EXCEPT !.mode = int(Chars(m))]

\* chmod <mode> <file>
chmod(f, m) == [f EXCEPT !.mode = Octal(Chars(m))]

DdCommand(fn, sz) ==
    <<"dd", "if=/dev/urandom", "of=" \o fn, "bs=" \o ToString(sz), "count=1">>

KeySizes == {1, 512, DEFAULT_KEY_SIZE}

\* generate_key_file up to its first command
generate_key_file ==
    \E sz \in KeySizes :
        /\ Start("generate_key_file")
        /\ filename' = "/etc/k"
        /\ size' = sz
        /\ pc' = "gen_dd"
        /\ UNCHANGED <<device_file, target, key_file, options, tries, open_command,
                       attempt, log, outcome, programs, crypttab, parsed, matched,
                       file, body_raised>>

\* TemporaryKeyFile(filename, size) followed by __enter__, which calls
\* generate_key_file
TemporaryKeyFile_enter ==
    \E sz \in KeySizes :
        /\ Start("TemporaryKeyFile")
        /\ filename' = "/etc/k"
        /\ size' = sz
        /\ pc' = "gen_dd"
        /\ UNCHANGED <<device_file, target, key_file, options, tries, open_command,
                       attempt, log, outcome, programs, crypttab, parsed, matched,
                       file, body_raised>>

\* an exception leaves generate_key_file (and __enter__, so that __exit__
\* is never called)
GenFailed ==
    /\ pc' = "done"
    /\ outcome' = "ExternalCommandFailed"

\* context.execute('dd', ..., silent=True, sudo=True); a failing dd has
\* either not touched the file or left it created / truncated
GenDd ==
    /\ pc = "gen_dd"
    /\ \E ok \in BOOLEAN, touched \in BOOLEAN, umode \in {"644", "600"} :
        /\ ok => touched
        /\ file.exists => umode = "644"
        /\ log' = Append(log, Execute(DdCommand(filename, size), TRUE, "unset", ok))
        /\ file' = IF touched THEN dd(file, size, umode, ok) ELSE file
        /\ IF ok THEN pc' = "gen_chown" /\ UNCHANGED outcome ELSE GenFailed
    /\ UNCHANGED <<op, device_file, target, key_file, options, tries, open_command,
                   attempt, programs, crypttab, parsed, matched, filename, size,
                   body_raised>>

\* context.execute('chown', 'root:root', filename, sudo=True)
GenChown ==
    /\ pc = "gen_chown"
    /\ \E ok \in BOOLEAN :
        /\ log' = Append(log, Execute(<<"chown", "root:root", filename>>, TRUE, "unset", ok))
        /\ file' = IF ok THEN chown(file, "root") ELSE file
        /\ IF ok THEN pc' = "gen_chmod" /\ UNCHANGED outcome ELSE GenFailed
    /\ UNCHANGED <<op, device_file, target, key_file, options, tries, open_command,
                   attempt, programs, crypttab, parsed, matched, filename, size,
                   body_raised>>

\* context.execute('chmod', '400', filename, sudo=True); generate_key_file
\* returns, and __enter__ with it
GenChmod ==
    /\ pc = "gen_chmod"
    /\ \E ok \in BOOLEAN :
        /\ log' = Append(log, Execute(<<"chmod", "400", filename>>, TRUE, "unset", ok))
        /\ file' = IF ok THEN chmod(file, "400") ELSE file
        /\ IF ~ok THEN GenFailed
           ELSE IF op = "TemporaryKeyFile" THEN pc' = "with_body" /\ UNCHANGED outcome
           ELSE pc' = "done" /\ outcome' = "returned"
    /\ UNCHANGED <<op, device_file, target, key_file, options, tries, open_command,
                   attempt, programs, crypttab, parsed, matched, filename, size,
                   body_raised>>

\* the body of the with-statement completes or raises
WithBody ==
    /\ pc = "with_body"
    /\ \E raised \in BOOLEAN : body_raised' = raised
    /\ pc' = "exit"
    /\ UNCHANGED <<op, device_file, target, key_file, options, tries, open_command,
                   attempt, log, outcome, programs, crypttab, parsed, matched, file,
                   filename, size>>

\* __exit__: context.execute('rm', '--force', filename, sudo=True); it
\* returns None, so an exception of the body propagates
TemporaryKeyFile_exit ==
    /\ pc = "exit"
    /\ \E ok \in BOOLEAN :
        /\ log' = Append(log, Execute(<<"rm", "--force", filename>>, TRUE, "unset", ok))
        /\ file' = IF ok THEN NoFile ELSE file
        /\ outcome' = IF ~ok THEN "ExternalCommandFailed"
                      ELSE IF body_raised THEN "BodyError" ELSE "returned"
    /\ pc' = "done"
    /\ UNCHANGED <<op, device_file, target, key_file, options, tries, open_command,
                   attempt, programs, crypttab, parsed, matched, filename, size,
                   body_raised>>

\* the key file path before the call: absent, or left by an earlier run
InitialFiles ==
    {NoFile} \cup
    {[exists |-> TRUE, owner |-> o, mode |-> Octal(Chars(m)), bytes |-> DEFAULT_KEY_SIZE] :
        o \in {"root", "user"}, m \in {"644", "600"}}

InitKeyFile ==
    /\ InitCommon
    /\ programs = {}
    /\ crypttab = <<>>
    /\ file \in InitialFiles

NextKeyFile ==
    \/ generate_key_file
    \/ TemporaryKeyFile_enter
    \/ GenDd
    \/ GenChown
    \/ GenChmod
    \/ WithBody
    \/ TemporaryKeyFile_exit

SpecKeyFile == InitKeyFile /\ [][NextKeyFile]_vars

-----------------------------------------------------------------------------
(* Properties of generate_key_file and TemporaryKeyFile.                   *)

Bit(m, k) == (m \div (2 ^ k)) % 2 = 1
OwnerRead(m) == Bit(m, 8)
OwnerWrite(m) == Bit(m, 7)
OwnerExec(m) == Bit(m, 6)
GroupOrOther(m) == m % 64 # 0

\* generate_key_file has returned and the file has not been removed since
KeyFileGenerated ==
    \/ op = "generate_key_file" /\ pc = "done" /\ outcome = "returned"
    \/ op = "TemporaryKeyFile" /\ pc \in {"with_body", "exit"}

RmRuns == {i \in Executed : log[i].argv[1] = "rm"}

FileWritten == \E i \in Executed : log[i].argv[1] = "dd" /\ log[i].ok

\* C5: whenever the scope of a TemporaryKeyFile has ended after the file was
\* written (the body completed, the body raised, or key generation failed
\* after dd), rm --force has run, and if it succeeded the file is gone.
C5_RemovedOnEveryPath ==
    (op = "TemporaryKeyFile" /\ pc = "done" /\ FileWritten) =>
        /\ RmRuns # {}
        /\ (\E i \in RmRuns : log[i].ok) => ~file.exists

-----------------------------------------------------------------------------
(* cryptdisks_start and cryptdisks_stop                                    *)

\* context.find_program(name)
find_program(name) == name \in programs

\* the mutation that probes for the other helper
StopProbe_start == "cryptdisks_start"

\* the program cryptdisks_stop looks for
StopProbe == "cryptdisks_stop"

\* the mutation that forgets the luks option
EntryMatches_anytype(entry, tgt) == entry.target = tgt

\* `entry.target == target and 'luks' in entry.options`
EntryMatches(entry, tgt) == entry.target = tgt /\ "luks" \in Range(entry.options)

\* the mutation that goes on after a match and ends with the last one
RECURSIVE Scan_last(_, _, _)
Scan_last(entries, tgt, i) ==
    IF i > Len(entries) THEN 0
    ELSE LET later == Scan_last(entries, tgt, i + 1)
         IN  IF later # 0 THEN later
             ELSE IF EntryMatches(entries[i], tgt) THEN i ELSE 0

\* the for loop over parse_crypttab(): the index of the entry at which the
\* loop breaks, 0 when it runs to its else clause
RECURSIVE Scan(_, _, _)
Scan(entries, tgt, i) ==
    IF i > Len(entries) THEN 0
    ELSE IF EntryMatches(entries[i], tgt) THEN i
    ELSE Scan(entries, tgt, i + 1)

\* context.execute('cryptdisks_start' / 'cryptdisks_stop', target, sudo=True)
HelperCommand(prog, tgt, ok) == Execute(<<prog, tgt>>, TRUE, "unset", ok)

Finish(ok) ==
    /\ pc' = "done"
    /\ outcome' = IF ok THEN "returned" ELSE "ExternalCommandFailed"

cryptdisks_start ==
    /\ Start("cryptdisks_start")
    /\ LET tgt == "vault" IN
       IF find_program("cryptdisks_start")
       THEN \E ok \in BOOLEAN :
               /\ log' = Append(log, HelperCommand("cryptdisks_start", tgt, ok))
               /\ Finish(ok)
               /\ target' = tgt
               /\ UNCHANGED <<device_file, key_file, options, tries, open_command,
                              attempt, parsed, matched>>
       ELSE LET m == Scan(crypttab, tgt, 1) IN
               /\ parsed' = TRUE
               /\ matched' = m
               /\ log' = log
               /\ IF m = 0
                  THEN /\ pc' = "done"
                       /\ outcome' = "ValueError"
                       /\ target' = tgt
                       /\ UNCHANGED <<device_file, key_file, options, tries,
                                      open_command, attempt>>
                  ELSE IF crypttab[m].is_unlocked
                  THEN /\ Finish(TRUE)
                       /\ target' = tgt
                       /\ UNCHANGED <<device_file, key_file, options, tries,
                                      open_command, attempt>>
                  ELSE /\ unlock_begin(crypttab[m].source_device, crypttab[m].target,
                                       crypttab[m].key_file, crypttab[m].options)
                       /\ UNCHANGED outcome
    /\ UNCHANGED <<programs, crypttab, file, filename, size, body_raised>>

cryptdisks_stop ==
    /\ Start("cryptdisks_stop")
    /\ target' = "vault"
    /\ LET tgt == "vault" IN
       IF find_program(StopProbe)
       THEN \E ok \in BOOLEAN :
               /\ log' = Append(log, HelperCommand("cryptdisks_stop", tgt, ok))
               /\ Finish(ok)
               /\ UNCHANGED <<parsed, matched>>
       ELSE LET m == Scan(crypttab, tgt, 1) IN
               /\ parsed' = TRUE
               /\ matched' = m
               /\ IF m = 0
                  THEN /\ pc' = "done"
                       /\ outcome' = "ValueError"
                       /\ log' = log
                  ELSE IF crypttab[m].is_unlocked
                  THEN \E ok \in BOOLEAN :
                          /\ log' = Append(log, Execute(CloseCommand(tgt), TRUE, "False", ok))
                          /\ Finish(ok)
                  ELSE /\ Finish(TRUE)
                       /\ log' = log
    /\ UNCHANGED <<device_file, key_file, options, tries, open_command, attempt,
                   programs, crypttab, file, filename, size, body_raised>>

\* the entries parse_crypttab() can produce
EntryOptions == {<<"luks">>, <<"discard">>, <<"luks", "tries=0">>, <<"discard", "luks", "tries=2">>}

Entries ==
    [target : {"vault", "other"},
     source_device : {"/dev/sdb1", "/dev/sdc1"},
     key_file : {None, "/etc/k"},
     options : EntryOptions,
     is_unlocked : BOOLEAN]

InitShim ==
    /\ InitCommon
    /\ programs \in SUBSET {"cryptdisks_start", "cryptdisks_stop"}
    /\ crypttab \in SeqUpTo(Entries, MaxEntries)
    /\ file = NoFile

NextShim ==
    \/ cryptdisks_start
    \/ cryptdisks_stop
    \/ UnlockAttempt
    \/ UnlockExhausted

SpecShim == InitShim /\ [][NextShim]_vars

-----------------------------------------------------------------------------
(* Properties of the shims.                                                *)

ShimCalled == op \in {"cryptdisks_start", "cryptdisks_stop"} /\ pc # "idle"

\* the helper is installed on the execution context
HelperAvailable == op \in programs

HelperRuns == {i \in Executed : log[i].argv[1] \in {"cryptdisks_start", "cryptdisks_stop"}}

CryptsetupRuns == {i \in Executed : log[i].argv[1] = "cryptsetup"}

\* C6: with the helper available the shim runs it exactly once, with the
\* target and with sudo, never parses /etc/crypttab and never runs
\* cryptsetup; with the helper unavailable no helper is ever run.
C6_NativeDelegation ==
    ShimCalled =>
        IF HelperAvailable
        THEN /\ Len(log) = 1
             /\ log[1].kind = "execute"
             /\ log[1].argv = <<op, target>>
             /\ log[1].sudo
             /\ ~parsed
             /\ ~UnlockCalled
             /\ CryptsetupRuns = {}
             /\ pc = "done"
        ELSE HelperRuns = {}

C6_Witness ==
    /\ op = "cryptdisks_stop"
    /\ programs = {"cryptdisks_stop"}
    /\ Len(crypttab) = 2
    /\ pc = "done"
    /\ log = <<[kind |-> "execute", argv |-> <<"cryptdisks_stop", "vault">>,
                sudo |-> TRUE, tty |-> "unset", ok |-> TRUE]>>

\* the entries of /etc/crypttab for the requested target that have `luks`
Applicable ==
    {i \in 1..Len(crypttab) :
        crypttab[i].target = target /\ "luks" \in Range(crypttab[i].options)}

FirstApplicable == CHOOSE i \in Applicable : \A j \in Applicable : i <= j

Emulating == ShimCalled /\ ~HelperAvailable

\* C7: in emulation mode only the first entry with the requested target and
\* `luks` counts.  cryptdisks_start calls unlock_filesystem once with that
\* entry's device, key file and options exactly when it is locked and runs
\* nothing when it is unlocked; cryptdisks_stop runs luksClose once exactly
\* when it is unlocked and nothing when it is locked.
C7_FirstApplicableEntry ==
    (Emulating /\ Applicable # {}) =>
        LET e == crypttab[FirstApplicable] IN
        /\ parsed
        /\ matched = FirstApplicable
        /\ op = "cryptdisks_start" =>
              /\ UnlockCalled = ~e.is_unlocked
              /\ e.is_unlocked => (log = <<>> /\ pc = "done" /\ outcome = "returned")
              /\ ~e.is_unlocked =>
                    /\ device_file = e.source_device
                    /\ key_file = e.key_file
                    /\ options = e.options
                    /\ target = e.target
                    /\ \A i \in Executed :
                          log[i].argv = OpenCommand(e.source_device, e.target,
                                                    e.key_file, e.options)
        /\ op = "cryptdisks_stop" =>
              /\ ~UnlockCalled
              /\ pc = "done"
              /\ e.is_unlocked =>
                    /\ Len(log) = 1
                    /\ log[1].kind = "execute"
                    /\ log[1].argv = <<"cryptsetup", "luksClose", target>>
              /\ ~e.is_unlocked => (log = <<>> /\ outcome = "returned")

\* cryptdisks_start skips a non-luks entry for the target, unlocks the first
\* luks entry and ignores a later one
C7_Witness ==
    /\ op = "cryptdisks_start"
    /\ programs = {}
    /\ Len(crypttab) = 2
    /\ crypttab[1].target = "vault" /\ crypttab[1].options = <<"discard">>
    /\ crypttab[2].target = "vault" /\ crypttab[2].options = <<"discard", "luks", "tries=2">>
    /\ ~crypttab[2].is_unlocked
    /\ matched = 2
    /\ pc = "done"
    /\ outcome = "returned"
    /\ Cardinality(Executed) = 2

====
